---- MODULE Spec2Model ----
(***************************************************************************)
(* Model of the partner-portrayal scanner's rule engine (src/src/rules.py) *)
(* and of the policy mutation that appends suppressions to the policy      *)
(* document (src/mark_false_positives.py).                                 *)
(*                                                                         *)
(* Strings are sequences of one-character strings; positions are Python's  *)
(* 0-based offsets, a span [start, end) is half open.                      *)
(***************************************************************************)
EXTENDS Integers, Sequences, FiniteSets, TLC

VARIABLES pc, text, doc, call, out, page_url, findings, batch, prev,
          args, url_index, attempt, fetch_result, log, results_for_report, exit_code

\* The variables of the command line programs (scan.py, mark_false_positives.py).
cli_vars == <<args, url_index, attempt, fetch_result, log, results_for_report, exit_code>>

vars == <<pc, text, doc, call, out, page_url, findings, batch, prev, cli_vars>>

(***************************************************************************)
(* Bounds of the model.                                                    *)
(***************************************************************************)
MaxLen == 4
MaxChars == 5
MaxLines == 4

\* The characters texts are built from: "u"/"U" is one letter in two cases.
Alphabet == {"u", "U", "g", "q"}

\* The ellipsis character of _snippet_around; it is not in Alphabet.
ELLIPSIS == "<ellipsis>"

Max(a, b) == IF a >= b THEN a ELSE b
Min(a, b) == IF a <= b THEN a ELSE b

StrOfLen(n) == [1..n -> Alphabet]
Texts == UNION {StrOfLen(n) : n \in 0..MaxLen}

(***************************************************************************)
(* Python string primitives.                                               *)
(***************************************************************************)
\* str.lower() on one character (re.IGNORECASE folds case the same way).
Lower(c) == IF c = "U" THEN "u" ELSE c

Fold(s, case_insensitive) ==
    IF case_insensitive THEN [i \in 1..Len(s) |-> Lower(s[i])] ELSE s

\* t[s:e] with Python's slice rules: a negative index counts from the end,
\* indices are clamped to [0, len], an empty range gives "".
PySlice(t, s, e) ==
    LET n  == Len(t)
        s1 == IF s < 0 THEN Max(0, s + n) ELSE Min(s, n)
        e1 == IF e < 0 THEN Max(0, e + n) ELSE Min(e, n)
    IN  IF e1 <= s1 THEN <<>> ELSE SubSeq(t, s1 + 1, e1)

\* re.search(re.escape(phrase), t, flags) is not None
Contains(phrase, t, case_insensitive) ==
    \E i \in 0..(Len(t) - Len(phrase)) :
        Fold(PySlice(t, i, i + Len(phrase)), case_insensitive)
            = Fold(phrase, case_insensitive)

(***************************************************************************)
(* Window and snippet utilities.                                           *)
(***************************************************************************)
\* rules.py:159-160, the left edge of the window
\* Mutant of WindowStart: the left edge is not clamped to 0.
WindowStartNoClamp(center, window_chars) == center - (window_chars \div 2)

WindowStart(center, window_chars) == Max(0, center - (window_chars \div 2))

\* rules.py:161, the right edge of the window
WindowEnd(t, center, window_chars) ==
    Min(Len(t), WindowStart(center, window_chars) + window_chars)

_window_around(t, center, window_chars) ==
    IF t = <<>> \/ window_chars <= 0
    THEN <<>>
    ELSE PySlice(t, WindowStart(center, window_chars),
                    WindowEnd(t, center, window_chars))

\* rules.py:142-143
SnippetStart(start, snippet_chars) == Max(0, start - (snippet_chars \div 2))

\* Mutant of SnippetEnd: the right edge is measured from the match end.
SnippetEndFromMatch(t, start, end, snippet_chars) ==
    Min(Len(t), end + (snippet_chars \div 2))

\* rules.py:144-146
SnippetEnd(t, start, end, snippet_chars) ==
    LET s  == SnippetStart(start, snippet_chars)
        e0 == Min(Len(t), end + (snippet_chars - (end - s)))
    IN  IF e0 - s < Len(t) THEN Min(Len(t), s + snippet_chars) ELSE e0

_snippet_around(t, start, end, snippet_chars) ==
    IF t = <<>> \/ snippet_chars <= 0
    THEN <<>>
    ELSE LET s    == SnippetStart(start, snippet_chars)
             e    == SnippetEnd(t, start, end, snippet_chars)
             out0 == PySlice(t, s, e)
             out1 == IF s > 0 THEN <<ELLIPSIS>> \o out0 ELSE out0
         IN  IF e < Len(t) THEN out1 \o <<ELLIPSIS>> ELSE out1

(***************************************************************************)
(* The policy document.  Everything but the suppressions section is held   *)
(* as the value yaml.safe_load gives; the suppressions section is held as  *)
(* the lines of text append_suppressions_to_policy edits.                  *)
(*   sup_form  "absent"  no suppressions key in the document               *)
(*             "inline"  the line "suppressions: []"                       *)
(*             "block"   the line "suppressions:" followed by sup_lines    *)
(*   a line    [dash, indent, key, val]: "<indent>- key: val" when dash,   *)
(*             "<indent>key: val" otherwise (indent counts the columns     *)
(*             before the dash, or before the key of a line without dash)  *)
(***************************************************************************)
\* Python's None; no string of the model contains this token.
NONE == <<"<None>">>

SupFields == {"rule_id", "url_contains", "snippet_contains", "match_contains", "reason"}

\* dict.get(key)
Get(d, key) == IF key \in DOMAIN d THEN d[key] ELSE NONE

\* dict.get(key, default)
GetOr(d, key, default) == IF key \in DOMAIN d THEN d[key] ELSE default

Line(dash, indent, key, val) ==
    [dash |-> dash, indent |-> indent, key |-> key, val |-> val]

\* The column of the keys of the mapping a line belongs to.
KeyColumn(l) == IF l.dash THEN l.indent + 2 ELSE l.indent

\* yaml.safe_load accepts the block: it starts with a dash line, every dash
\* sits in the column of the first, every key in the column two further.
LinesParse(lines) ==
    \/ lines = <<>>
    \/ /\ lines[1].dash
       /\ \A i \in 1..Len(lines) :
            /\ lines[i].dash => lines[i].indent = lines[1].indent
            /\ KeyColumn(lines[i]) = lines[1].indent + 2

\* The mapping a run of lines builds; a key given twice keeps the last value.
RECURSIVE EntryOf(_, _)
EntryOf(lines, acc) ==
    IF lines = <<>> \/ Head(lines).dash
    THEN acc
    ELSE LET l == Head(lines)
         IN  EntryOf(Tail(lines),
                     [k \in DOMAIN acc \cup {l.key} |->
                         IF k = l.key THEN l.val ELSE acc[k]])

RECURSIVE ParseLines(_)
ParseLines(lines) ==
    IF lines = <<>>
    THEN <<>>
    ELSE LET l    == Head(lines)
             rest == Tail(lines)
         IN  IF l.dash
             THEN <<EntryOf(rest, [k \in {l.key} |-> l.val])>> \o ParseLines(rest)
             ELSE ParseLines(rest)

\* A document whose top level is a mapping is a record of its sections; any
\* other document is [top, truthy]: top is "empty" (no content, loads as
\* None), "list" or "scalar", truthy is bool() of the loaded value.
NonMapping(top, truthy) == [top |-> top, truthy |-> truthy]

TopLevel(d) == IF "top" \in DOMAIN d THEN d.top ELSE "mapping"

\* The mapping {}.
EmptyDoc ==
    [org_variants |-> <<>>, qualifiers |-> <<>>, scan |-> <<>>, rules |-> <<>>,
     sup_form |-> "absent", sup_lines |-> <<>>]

DocParses(d) ==
    TopLevel(d) # "mapping" \/ d.sup_form # "block" \/ LinesParse(d.sup_lines)

\* policy.get("suppressions") or [] of the loaded document
LoadedSuppressions(d) ==
    IF d.sup_form = "block" THEN ParseLines(d.sup_lines) ELSE <<>>

\* yaml.safe_load(f) or {}: a value that is falsy (None, [], "", 0, false)
\* is replaced by the empty mapping, any other value is returned as it is.
SafeLoadOrEmpty(d) ==
    IF TopLevel(d) # "mapping" /\ ~ d.truthy THEN EmptyDoc ELSE d

\* rules.py:31 (and 55, 209): policy.get raises AttributeError when the
\* loaded value is a list or a string.
LoadedIsNoMapping(d) == TopLevel(SafeLoadOrEmpty(d)) # "mapping"

\* rules.py:23-26 and mark_false_positives.py:61-63, for a document that
\* loads as a mapping
_load_policy(d) ==
    LET m == SafeLoadOrEmpty(d)
    IN  [org_variants |-> m.org_variants,
         qualifiers   |-> m.qualifiers,
         scan         |-> m.scan,
         rules        |-> m.rules,
         suppressions |-> LoadedSuppressions(m)]

(***************************************************************************)
(* Regular expressions.  A pattern is [kind, s]:                           *)
(*   "lit"      the literal string s (s = "" is the empty pattern string)  *)
(*   "star"     c* for the character c = s[1]; it matches the empty string *)
(*   "invalid"  a string re.compile rejects                                *)
(***************************************************************************)
Lit(s)  == [kind |-> "lit", s |-> s]
Star(c) == [kind |-> "star", s |-> <<c>>]
Invalid == [kind |-> "invalid", s |-> <<"(">>]

NoMatch == <<-1, -1>>

\* The number of characters equal to c that t has from offset p on.
RECURSIVE RunLen(_, _, _, _)
RunLen(c, t, p, ci) ==
    IF p < Len(t) /\ Fold(<<t[p + 1]>>, ci) = Fold(<<c>>, ci)
    THEN 1 + RunLen(c, t, p + 1, ci)
    ELSE 0

\* The end of the (greedy) match of pat that starts at offset p, or -1.
MatchEnd(pat, t, p, ci) ==
    IF pat.kind = "star"
    THEN p + RunLen(pat.s[1], t, p, ci)
    ELSE IF /\ p + Len(pat.s) <= Len(t)
            /\ Fold(PySlice(t, p, p + Len(pat.s)), ci) = Fold(pat.s, ci)
         THEN p + Len(pat.s)
         ELSE -1

\* pattern.search from offset p: the leftmost match; must_advance forbids
\* an empty match at p itself (set after an empty match of finditer).
RECURSIVE SearchFrom(_, _, _, _, _)
SearchFrom(pat, t, p, must_advance, ci) ==
    IF p > Len(t)
    THEN NoMatch
    ELSE LET e == MatchEnd(pat, t, p, ci)
         IN  IF e >= 0 /\ ~(must_advance /\ e = p)
             THEN <<p, e>>
             ELSE SearchFrom(pat, t, p + 1, FALSE, ci)

\* pattern.search(t)
Search(pat, t, ci) == SearchFrom(pat, t, 0, FALSE, ci)

\* list(pattern.finditer(t)) as spans <<start, end>>
RECURSIVE FindIterFrom(_, _, _, _, _)
FindIterFrom(pat, t, p, must_advance, ci) ==
    LET m == SearchFrom(pat, t, p, must_advance, ci)
    IN  IF m = NoMatch
        THEN <<>>
        ELSE <<m>> \o FindIterFrom(pat, t, m[2], m[1] = m[2], ci)

FindIter(pat, t, ci) == FindIterFrom(pat, t, 0, FALSE, ci)

\* m.group(0)
Group0(t, m) == PySlice(t, m[1], m[2])

_compile_patterns(patterns) ==
    SelectSeq(patterns, LAMBDA p : p.s # <<>> /\ p.kind # "invalid")

RECURSIVE Flatten(_)
Flatten(ss) == IF ss = <<>> THEN <<>> ELSE Head(ss) \o Flatten(Tail(ss))

(***************************************************************************)
(* Scan configuration and the context gate.                                *)
(***************************************************************************)
DefaultSnippetChars == 260
DefaultQualifierWindow == 400
DefaultProximityWindow == 250

_get_scan_config(policy) ==
    [snippet_chars          |-> GetOr(policy.scan, "snippet_chars", DefaultSnippetChars),
     qualifier_window_chars |-> GetOr(policy.scan, "qualifier_window_chars", DefaultQualifierWindow),
     proximity_window_chars |-> GetOr(policy.scan, "proximity_window_chars", DefaultProximityWindow),
     case_insensitive       |-> GetOr(policy.scan, "case_insensitive", TRUE),
     upgrade_context_window_chars |-> GetOr(policy.scan, "upgrade_context_window_chars", 0)]

_build_qualifier_phrases(policy) ==
    [k \in DOMAIN policy.qualifiers |->
        SelectSeq(policy.qualifiers[k], LAMBDA p : p # <<>>)]

\* Mutant of _is_upgrade_related: the function ends with "return True".
IsUpgradeRelatedFallsThrough(t, policy, case_insensitive) == t # <<>>

_is_upgrade_related(t, policy, case_insensitive) ==
    IF t = <<>>
    THEN FALSE
    ELSE IF policy.org_variants = <<>>
    THEN TRUE
    ELSE \E i \in 1..Len(policy.org_variants) :
            /\ policy.org_variants[i] # <<>>
            /\ Contains(policy.org_variants[i], t, case_insensitive)

_has_upgrade_near_position(t, center, window_chars, policy, case_insensitive) ==
    IF t = <<>> \/ window_chars <= 0
    THEN TRUE
    ELSE _is_upgrade_related(_window_around(t, center, window_chars),
                             policy, case_insensitive)

_has_qualifier_in_text(t, qualifier_groups, qualifier_phrases, case_insensitive) ==
    IF t = <<>> \/ qualifier_groups = <<>>
    THEN FALSE
    ELSE \E g \in 1..Len(qualifier_groups) :
            LET phrases == GetOr(qualifier_phrases, qualifier_groups[g], <<>>)
            IN  \E i \in 1..Len(phrases) :
                    /\ phrases[i] # <<>>
                    /\ Contains(phrases[i], t, case_insensitive)

(***************************************************************************)
(* Suppression filter.                                                     *)
(***************************************************************************)
\* suppression.get(field) or ""
GetStr(d, key) == IF Get(d, key) = NONE THEN <<>> ELSE Get(d, key)

\* Mutant of _suppression_matches: a filter field that is absent does not
\* match (the "url_contains and" guard of each test is lost).
SuppressionMatchesAllFields(finding, url, suppression, case_insensitive) ==
    /\ Get(suppression, "rule_id") = finding.rule_id
    /\ Get(suppression, "url_contains") # NONE
    /\ Contains(Get(suppression, "url_contains"), url, case_insensitive)
    /\ Get(suppression, "snippet_contains") # NONE
    /\ Contains(Get(suppression, "snippet_contains"), finding.snippet, case_insensitive)
    /\ Get(suppression, "match_contains") # NONE
    /\ Contains(Get(suppression, "match_contains"), finding.match_text, case_insensitive)

_suppression_matches(finding, url, suppression, case_insensitive) ==
    IF Get(suppression, "rule_id") # finding.rule_id
    THEN FALSE
    ELSE LET url_contains     == GetStr(suppression, "url_contains")
             snippet_contains == GetStr(suppression, "snippet_contains")
             match_contains   == GetStr(suppression, "match_contains")
         IN  /\ url_contains = <<>> \/ Contains(url_contains, url, case_insensitive)
             /\ snippet_contains = <<>>
                    \/ Contains(snippet_contains, finding.snippet, case_insensitive)
             /\ match_contains = <<>>
                    \/ Contains(match_contains, finding.match_text, case_insensitive)

\* Mutant of _apply_suppressions: a finding is dropped only when every
\* suppression matches it ("all" for "any").
ApplySuppressionsAll(fs, policy, url, case_insensitive) ==
    IF policy.suppressions = <<>>
    THEN fs
    ELSE SelectSeq(fs, LAMBDA f :
            ~ \A i \in 1..Len(policy.suppressions) :
                _suppression_matches(f, url, policy.suppressions[i], case_insensitive))

_apply_suppressions(fs, policy, url, case_insensitive) ==
    IF policy.suppressions = <<>>
    THEN fs
    ELSE SelectSeq(fs, LAMBDA f :
            ~ \E i \in 1..Len(policy.suppressions) :
                _suppression_matches(f, url, policy.suppressions[i], case_insensitive))

(***************************************************************************)
(* Rule evaluation.  A rule, the proximity mapping and the scan mapping    *)
(* are functions whose domain holds the keys the document gives.           *)
(***************************************************************************)
\* d.get(key) or default, for strings
StrOr(d, key, default) ==
    IF Get(d, key) = NONE \/ Get(d, key) = <<>> THEN default ELSE Get(d, key)

\* d.get(key) or [], for lists
ListOf(d, key) == GetOr(d, key, <<>>)

\* The values run_rules computes before the rule loop (rules.py:201-209).
Context(policy) ==
    LET config == _get_scan_config(policy)
    IN  [case_insensitive    |-> config.case_insensitive,
         snippet_chars       |-> config.snippet_chars,
         qualifier_window    |-> config.qualifier_window_chars,
         proximity_window    |-> config.proximity_window_chars,
         upgrade_near_window |-> config.upgrade_context_window_chars,
         require_upgrade     |-> GetOr(policy.scan, "require_upgrade_context", TRUE),
         qualifier_phrases   |-> _build_qualifier_phrases(policy)]

Finding(rule, match_text, snippet) ==
    [rule_id        |-> StrOr(rule, "id", <<"UNKNOWN">>),
     taxonomy       |-> StrOr(rule, "taxonomy", <<>>),
     severity       |-> StrOr(rule, "severity", <<"MEDIUM">>),
     match_text     |-> match_text,
     snippet        |-> snippet,
     recommendation |-> StrOr(rule, "recommendation", <<>>)]

\* Mutant of _add_finding: the near-mention test is lost, every call appends.
AddFindingUngated(t, policy, ctx, rule, match_text, snippet, match_start, match_end) ==
    <<Finding(rule, match_text, snippet)>>

\* The findings one call of _add_finding appends: one or none.
_add_finding(t, policy, ctx, rule, match_text, snippet, match_start, match_end) ==
    IF /\ ctx.require_upgrade
       /\ ctx.upgrade_near_window > 0
       /\ ~ _has_upgrade_near_position(t, (match_start + match_end) \div 2,
                ctx.upgrade_near_window, policy, ctx.case_insensitive)
    THEN <<>>
    ELSE <<Finding(rule, match_text, snippet)>>

\* Mutant of QualifierNear: the qualifier phrases are searched in the whole
\* text instead of the window around the match.
QualifierAnywhere(t, m, required_any, ctx) ==
    _has_qualifier_in_text(t, required_any, ctx.qualifier_phrases, ctx.case_insensitive)

\* rules.py:247-249 and 280-282: the match is cancelled by a qualifier phrase
\* in the qualifier window around its midpoint.
QualifierNear(t, m, required_any, ctx) ==
    _has_qualifier_in_text(
        _window_around(t, (m[1] + m[2]) \div 2, ctx.qualifier_window),
        required_any, ctx.qualifier_phrases, ctx.case_insensitive)

\* rules.py:238-250
PatternRule(t, policy, ctx, rule) ==
    LET patterns     == ListOf(rule, "patterns")
        required_any == ListOf(rule, "required_qualifiers_any")
        compiled     == _compile_patterns(patterns)
        ForMatch(m)  ==
            IF required_any # <<>> /\ QualifierNear(t, m, required_any, ctx)
            THEN <<>>
            ELSE _add_finding(t, policy, ctx, rule, Group0(t, m),
                     _snippet_around(t, m[1], m[2], ctx.snippet_chars), m[1], m[2])
        ForPattern(pat) ==
            LET ms == FindIter(pat, t, ctx.case_insensitive)
            IN  Flatten([k \in 1..Len(ms) |-> ForMatch(ms[k])])
    IN  IF patterns = <<>>
        THEN <<>>
        ELSE Flatten([i \in 1..Len(compiled) |-> ForPattern(compiled[i])])

\* rules.py:263-264: the first near pattern that matches in the window of
\* the anchor match a_m, as an index into n_compiled; 0 when there is none.
NearHit(t, a_m, n_compiled, window_chars, ci) ==
    LET window_text == _window_around(t, (a_m[1] + a_m[2]) \div 2, window_chars)
        hits == {j \in 1..Len(n_compiled) :
                    Search(n_compiled[j], window_text, ci) # NoMatch}
    IN  IF hits = {} THEN 0 ELSE CHOOSE j \in hits : \A k \in hits : j <= k

\* Mutant of AnchorHits: the loop over the anchor matches is not left after
\* a finding (only the loop over the near patterns is).
AnchorHitsNoBreak(ms, t, n_compiled, window_chars, ci) ==
    SelectSeq(ms, LAMBDA m : NearHit(t, m, n_compiled, window_chars, ci) # 0)

\* rules.py:261-271: the anchor matches of one anchor pattern that reach
\* _add_finding.  The loop over the matches is left (break) after the first
\* match that has a near pattern in its window.
AnchorHits(ms, t, n_compiled, window_chars, ci) ==
    LET hits == {k \in 1..Len(ms) : NearHit(t, ms[k], n_compiled, window_chars, ci) # 0}
    IN  IF hits = {}
        THEN <<>>
        ELSE <<ms[CHOOSE k \in hits : \A j \in hits : k <= j]>>

\* rules.py:253-271
ProximityRule(t, policy, ctx, rule) ==
    LET prox            == GetOr(rule, "proximity", <<>>)
        anchor_patterns == ListOf(prox, "anchor_patterns")
        near_patterns   == ListOf(prox, "near_patterns")
        window_chars    == IF GetOr(prox, "window_chars", 0) = 0
                           THEN ctx.proximity_window
                           ELSE prox["window_chars"]
        a_compiled      == _compile_patterns(anchor_patterns)
        n_compiled      == _compile_patterns(near_patterns)
        ci              == ctx.case_insensitive
        ForAnchor(a_m)  ==
            LET window_text == _window_around(t, (a_m[1] + a_m[2]) \div 2, window_chars)
                n_pat       == n_compiled[NearHit(t, a_m, n_compiled, window_chars, ci)]
                near_text   == Group0(window_text, Search(n_pat, window_text, ci))
            IN  _add_finding(t, policy, ctx, rule,
                    Group0(t, a_m) \o <<" ", ".", ".", ".", " ">> \o near_text,
                    _snippet_around(t, a_m[1], a_m[2], ctx.snippet_chars),
                    a_m[1], a_m[2])
        ForPattern(a_pat) ==
            LET hits == AnchorHits(FindIter(a_pat, t, ci), t, n_compiled, window_chars, ci)
            IN  Flatten([k \in 1..Len(hits) |-> ForAnchor(hits[k])])
    IN  IF DOMAIN prox = {}
        THEN <<>>
        ELSE Flatten([i \in 1..Len(a_compiled) |-> ForPattern(a_compiled[i])])

\* Mutant of TriggerEnabled: trigger patterns run without qualifier groups.
TriggerEnabledWithoutQualifiers(trigger_patterns, required_any) ==
    trigger_patterns # <<>>

\* rules.py:276
TriggerEnabled(trigger_patterns, required_any) ==
    trigger_patterns # <<>> /\ required_any # <<>>

\* rules.py:274-285
TriggerRule(t, policy, ctx, rule) ==
    LET trigger_patterns == ListOf(rule, "trigger_patterns")
        required_any     == ListOf(rule, "required_qualifiers_any")
        t_compiled       == _compile_patterns(trigger_patterns)
        ForMatch(m)      ==
            IF QualifierNear(t, m, required_any, ctx)
            THEN <<>>
            ELSE _add_finding(t, policy, ctx, rule, Group0(t, m),
                     _snippet_around(t, m[1], m[2], ctx.snippet_chars), m[1], m[2])
        ForPattern(pat) ==
            LET ms == FindIter(pat, t, ctx.case_insensitive)
            IN  Flatten([k \in 1..Len(ms) |-> ForMatch(ms[k])])
    IN  IF TriggerEnabled(trigger_patterns, required_any)
        THEN Flatten([i \in 1..Len(t_compiled) |-> ForPattern(t_compiled[i])])
        ELSE <<>>

\* rules.py:231-285, the findings list before the suppression filter
RawFindings(t, policy, ctx) ==
    Flatten([i \in 1..Len(policy.rules) |->
                PatternRule(t, policy, ctx, policy.rules[i])
                    \o ProximityRule(t, policy, ctx, policy.rules[i])
                    \o TriggerRule(t, policy, ctx, policy.rules[i])])

\* rules.py:209-211, the document-level topic gate: TRUE when run_rules
\* returns [] before any rule is evaluated.
GateCloses(t, policy, ctx) ==
    ctx.require_upgrade /\ ~ _is_upgrade_related(t, policy, ctx.case_insensitive)

\* rules.py:213-285, the list findings when run_rules reaches line 287
\* (empty when the topic gate returned before).
FindingsBeforeSuppression(t, d) ==
    LET policy == _load_policy(d)
        ctx    == Context(policy)
    IN  IF GateCloses(t, policy, ctx) THEN <<>> ELSE RawFindings(t, policy, ctx)

\* rules.py:188-287 on a document that loads, when no exception leaves the
\* rule loop; url is the page_url argument.
run_rules(t, d, url) ==
    LET policy == _load_policy(d)
        ctx    == Context(policy)
    IN  IF GateCloses(t, policy, ctx)
        THEN <<>>
        ELSE _apply_suppressions(RawFindings(t, policy, ctx), policy,
                                 IF url = NONE THEN <<>> ELSE url,
                                 ctx.case_insensitive)

\* An entry of the rules list that is a YAML scalar, not a mapping.
ScalarEntry(s) == [yaml_scalar |-> s]

IsMapping(rule) == "yaml_scalar" \notin DOMAIN rule

\* An entry of a pattern list that is a YAML integer (not 0), not a string.
IntPattern == [kind |-> "int", s |-> <<"5">>]

\* rules.py:128-134: re.compile raises TypeError for an entry that is not a
\* string; only re.error is caught.
CompileRaises(patterns) ==
    \E i \in 1..Len(patterns) : patterns[i].kind = "int"

\* rules.py:232-276 for one entry of the rules list: rule.get raises
\* AttributeError when the entry is no mapping; the pattern lists are
\* compiled where the code compiles them.
RuleRaises(rule) ==
    \/ ~ IsMapping(rule)
    \/ CompileRaises(ListOf(rule, "patterns"))
    \/ /\ DOMAIN GetOr(rule, "proximity", <<>>) # {}
       /\ \/ CompileRaises(ListOf(rule["proximity"], "anchor_patterns"))
          \/ CompileRaises(ListOf(rule["proximity"], "near_patterns"))
    \/ /\ TriggerEnabled(ListOf(rule, "trigger_patterns"),
                         ListOf(rule, "required_qualifiers_any"))
       /\ CompileRaises(ListOf(rule, "trigger_patterns"))

\* run_rules leaves by an exception of the rule loop (rules.py:231-285);
\* the loop is not reached when the topic gate returns [] before it.
RulesRaise(t, d) ==
    LET policy == _load_policy(d)
    IN  /\ ~ GateCloses(t, policy, Context(policy))
        /\ \E i \in 1..Len(policy.rules) : RuleRaises(policy.rules[i])

(***************************************************************************)
(* State machine.  pc names the operation that has run ("init": none yet);  *)
(* text, call and page_url hold its arguments, out and findings its        *)
(* result.  A behaviour is one call on inputs drawn from bounded sets.     *)
(***************************************************************************)
NoCall == [start |-> 0, end |-> 0, center |-> 0, width |-> 0]

\* No fetch result yet.
NoResult == [error |-> NONE, html |-> <<>>, final_url |-> <<>>]

\* No command line program runs: a function of the library is called.
NoProgram ==
    /\ args = [prog |-> "none"]
    /\ url_index = 0
    /\ attempt = 0
    /\ fetch_result = NoResult
    /\ log = <<>>
    /\ results_for_report = <<>>
    /\ exit_code = -1

\* Texts of the utility calls: the window and the snippet only copy
\* characters, two letters tell the offsets apart.
UtilTexts == UNION {[1..n -> {"g", "q"}] : n \in 0..MaxLen}

InitUtil ==
    /\ pc = "init"
    /\ text \in UtilTexts
    /\ doc = EmptyDoc
    /\ call = NoCall
    /\ out = <<>>
    /\ page_url = NONE
    /\ findings = <<>>
    /\ batch = <<>>
    /\ prev = <<>>
    /\ NoProgram

\* A call _snippet_around(text, start, end, snippet_chars) for a span of text.
CallSnippet ==
    \E start \in 0..Len(text), end \in 0..Len(text), chars \in 0..MaxChars :
        /\ pc = "init"
        /\ start <= end
        /\ call' = [start |-> start, end |-> end, center |-> 0, width |-> chars]
        /\ out' = _snippet_around(text, start, end, chars)
        /\ pc' = "snippet"
        /\ UNCHANGED <<text, doc, page_url, findings, batch, prev, cli_vars>>

\* A call _window_around(text, center, window_chars).
CallWindow ==
    \E center \in 0..Len(text), width \in (-1)..MaxChars :
        /\ pc = "init"
        /\ call' = [start |-> 0, end |-> 0, center |-> center, width |-> width]
        /\ out' = _window_around(text, center, width)
        /\ pc' = "window"
        /\ UNCHANGED <<text, doc, page_url, findings, batch, prev, cli_vars>>

NextUtil == CallSnippet \/ CallWindow

SpecUtil == InitUtil /\ [][NextUtil]_vars

(***************************************************************************)
(* C4 (as claimed): when the match is no longer than snippet_chars the     *)
(* range [s, e) of the snippet covers the match span [start, end), so the  *)
(* snippet contains the match text.                                        *)
(***************************************************************************)
SnippetCoversMatch ==
    (pc = "snippet" /\ call.width > 0 /\ call.end - call.start <= call.width)
        => /\ SnippetStart(call.start, call.width) <= call.start
           /\ call.end <= SnippetEnd(text, call.start, call.end, call.width)
           /\ Contains(PySlice(text, call.start, call.end), out, FALSE)

(***************************************************************************)
(* C5: the snippet is at most snippet_chars + 2 long; it is a slice of at  *)
(* most snippet_chars characters of the text, with a leading ellipsis      *)
(* exactly when the slice starts after offset 0 and a trailing ellipsis    *)
(* exactly when the slice ends before the end of the text.                 *)
(***************************************************************************)
SnippetLengthBound ==
    pc = "snippet" =>
        /\ Len(out) <= call.width + 2
        /\ (text = <<>> \/ call.width = 0) => out = <<>>
        /\ (text # <<>> /\ call.width > 0) =>
            LET core == SelectSeq(out, LAMBDA c : c # ELLIPSIS)
                s    == IF call.start - (call.width \div 2) > 0
                        THEN call.start - (call.width \div 2) ELSE 0
                e    == s + Len(core)
            IN  /\ Len(core) <= call.width
                /\ e <= Len(text)
                /\ \A i \in 1..Len(core) : core[i] = text[s + i]
                /\ out = (IF s > 0 THEN <<ELLIPSIS>> ELSE <<>>) \o core
                            \o (IF e < Len(text) THEN <<ELLIPSIS>> ELSE <<>>)

\* C5 witness: a snippet cut on both sides, of the full length snippet_chars + 2.
SnippetLengthWitness ==
    /\ pc = "snippet"
    /\ call.width > 0
    /\ Len(out) = call.width + 2
    /\ out[1] = ELLIPSIS
    /\ out[Len(out)] = ELLIPSIS

(***************************************************************************)
(* C6: for 0 <= center <= len(text) the window is text[s:e] with           *)
(* s = max(0, center - width div 2), 0 <= s <= e <= len(text) and          *)
(* e - s <= width; it is empty when width <= 0.                            *)
(***************************************************************************)
WindowClamped ==
    pc = "window" =>
        /\ call.width <= 0 => out = <<>>
        /\ call.width > 0 =>
            LET s == IF call.center - (call.width \div 2) > 0
                     THEN call.center - (call.width \div 2) ELSE 0
                e == s + Len(out)
            IN  /\ 0 <= s /\ s <= e /\ e <= Len(text)
                /\ e - s <= call.width
                /\ s = WindowStart(call.center, call.width)
                /\ e = IF text = <<>> THEN 0 ELSE WindowEnd(text, call.center, call.width)
                /\ e = Len(text) \/ e - s = call.width
                /\ \A i \in 1..Len(out) : out[i] = text[s + i]

\* C6 witness: a window clamped on the left (center nearer to 0 than half the
\* width) and on the right (the text ends before the window does).
WindowClampedWitness ==
    /\ pc = "window"
    /\ call.width > 0
    /\ call.center - (call.width \div 2) < 0
    /\ call.center + call.width > Len(text)
    /\ out = text
    /\ Len(text) >= 2

(***************************************************************************)
(* Rule engine runs.  The policy document is drawn by Init, the extracted  *)
(* text and the page URL by the call.                                      *)
(***************************************************************************)
Urls == {NONE, <<"u">>}

InitRules(docs) ==
    /\ pc = "init"
    /\ text = <<>>
    /\ doc \in docs
    /\ call = NoCall
    /\ out = <<>>
    /\ page_url = NONE
    /\ findings = <<>>
    /\ batch = <<>>
    /\ prev = <<>>
    /\ NoProgram

\* A call run_rules(text, policy_path, page_url); yaml.safe_load raises on a
\* document that does not parse ("raised"), _get_scan_config on a loaded
\* value that is no mapping ("AttributeError"), the rule loop on an entry
\* it cannot handle ("rule_raised").  out keeps the findings list as it is
\* before the suppression filter.
RunRules ==
    \E t \in Texts, url \in Urls :
        /\ pc = "init"
        /\ text' = t
        /\ page_url' = url
        /\ IF ~ DocParses(doc)
           THEN /\ findings' = <<>>
                /\ out' = <<>>
                /\ pc' = "raised"
           ELSE IF LoadedIsNoMapping(doc)
           THEN /\ findings' = <<>>
                /\ out' = <<>>
                /\ pc' = "AttributeError"
           ELSE IF RulesRaise(t, doc)
           THEN /\ findings' = <<>>
                /\ out' = <<>>
                /\ pc' = "rule_raised"
           ELSE /\ findings' = run_rules(t, doc, url)
                /\ out' = FindingsBeforeSuppression(t, doc)
                /\ pc' = "rules"
        /\ UNCHANGED <<doc, call, batch, prev, cli_vars>>

NextRules == RunRules

\* Documents: scan mappings, rules and suppression lines used below.
R1 == <<"R1">>
R2 == <<"R2">>

PatternRuleOf(id, patterns) == [id |-> id, patterns |-> patterns]

Doc(variants, qualifiers, scan, rules, form, lines) ==
    [org_variants |-> variants, qualifiers |-> qualifiers, scan |-> scan,
     rules |-> rules, sup_form |-> form, sup_lines |-> lines]

\* Scan mappings that give or leave out require_upgrade_context.
ScanRequire(req, ci, near) ==
    [require_upgrade_context |-> req, case_insensitive |-> ci,
     upgrade_context_window_chars |-> near]

ScanDefaultRequire(ci, near) ==
    [case_insensitive |-> ci, upgrade_context_window_chars |-> near]

GateScans ==
    {ScanRequire(req, ci, near) : req \in BOOLEAN, ci \in BOOLEAN, near \in {0, 2}}
        \cup {ScanDefaultRequire(ci, 0) : ci \in BOOLEAN}

GateVariants == {<<>>, << <<"u">> >>, << <<>> >>, << <<>>, <<"u", "u">> >>}

GateRules == { <<PatternRuleOf(R1, <<Lit(<<"g">>)>>)>>,
               <<PatternRuleOf(R1, <<Star("g")>>)>> }

GateDocs ==
    {Doc(v, <<>>, sc, rs, "inline", <<>>) :
        v \in GateVariants, sc \in GateScans, rs \in GateRules}

SpecGate == InitRules(GateDocs) /\ [][NextRules]_vars

\* The phrase occurs in t at offset i (0-based), letter case as configured.
OccursAt(phrase, t, i, ci) ==
    /\ i + Len(phrase) <= Len(t)
    /\ \A j \in 1..Len(phrase) :
        IF ci THEN Lower(t[i + j]) = Lower(phrase[j]) ELSE t[i + j] = phrase[j]

Occurs(phrase, t, ci) ==
    phrase # <<>> /\ \E i \in 0..Len(t) : OccursAt(phrase, t, i, ci)

DocRequiresContext == GetOr(doc.scan, "require_upgrade_context", TRUE)

DocCaseInsensitive == GetOr(doc.scan, "case_insensitive", TRUE)

NoVariantInText ==
    \A i \in 1..Len(doc.org_variants) :
        ~ Occurs(doc.org_variants[i], text, DocCaseInsensitive)

\* The document-level topic gate lets the text through to the rules.
TopicGateOpen ==
    \/ ~ DocRequiresContext
    \/ /\ text # <<>>
       /\ doc.org_variants = <<>> \/ ~ NoVariantInText

\* The per-match near-mention gate is not active.
NearGateInactive ==
    \/ ~ DocRequiresContext
    \/ GetOr(doc.scan, "upgrade_context_window_chars", 0) <= 0

(***************************************************************************)
(* C1 (as claimed): with require_upgrade_context true and no company-name  *)
(* variant phrase in the text, run_rules returns no finding, for every     *)
(* policy, also one whose variant list is empty or absent.                 *)
(***************************************************************************)
TopicGateForEveryPolicy ==
    (pc = "rules" /\ DocRequiresContext /\ NoVariantInText) => findings = <<>>

(***************************************************************************)
(* C1 (amended): with require_upgrade_context true, a non-empty variant    *)
(* list and no variant phrase of it in the text, run_rules returns no      *)
(* finding, whatever the rules; an empty or absent list is no constraint.  *)
(***************************************************************************)
TopicGateWithVariants ==
    (pc = "rules" /\ DocRequiresContext /\ doc.org_variants # <<>> /\ NoVariantInText)
        => findings = <<>>

\* C1 witness: the gate closes on a text that a rule of the policy matches.
TopicGateWitness ==
    /\ pc = "rules"
    /\ DocRequiresContext
    /\ \E i \in 1..Len(doc.org_variants) : doc.org_variants[i] # <<>>
    /\ NoVariantInText
    /\ Occurs(<<"g">>, text, DocCaseInsensitive)
    /\ findings = <<>>

(***************************************************************************)
(* C7 (as claimed): run_rules on the empty text returns no finding, for    *)
(* every policy, with require_upgrade_context true or false.               *)
(***************************************************************************)
EmptyTextNoFindings ==
    (pc = "rules" /\ text = <<>>) => findings = <<>>

(***************************************************************************)
(* Suppression documents: two pattern rules, R1 on "g" and R2 on "q", and  *)
(* a suppressions block as the policy mutation writes it (dash in column   *)
(* 2) or as yaml.safe_dump writes it (dash in column 0).                   *)
(***************************************************************************)
SuppressRules ==
    <<PatternRuleOf(R1, <<Lit(<<"g">>)>>), PatternRuleOf(R2, <<Lit(<<"q">>)>>)>>

SuppressBlocks ==
    { <<Line(TRUE, 2, "rule_id", R1)>>,
      <<Line(TRUE, 2, "rule_id", R1), Line(FALSE, 4, "reason", <<"u">>)>>,
      <<Line(TRUE, 2, "rule_id", R2), Line(FALSE, 4, "url_contains", <<"u">>),
        Line(TRUE, 2, "rule_id", R1)>>,
      <<Line(TRUE, 0, "rule_id", R1), Line(TRUE, 0, "rule_id", R2),
        Line(FALSE, 2, "match_contains", <<"q">>)>>,
      <<Line(TRUE, 2, "rule_id", R2), Line(FALSE, 4, "snippet_contains", <<"g">>)>>,
      <<Line(TRUE, 2, "rule_id", R1), Line(FALSE, 4, "match_contains", <<"g">>),
        Line(FALSE, 4, "url_contains", <<"u">>)>>,
      <<Line(TRUE, 2, "rule_id", R1), Line(FALSE, 4, "snippet_contains", <<"q">>)>>,
      \* an empty string and a null as filter values; a filter in capitals
      <<Line(TRUE, 2, "rule_id", R1), Line(FALSE, 4, "url_contains", <<>>),
        Line(FALSE, 4, "snippet_contains", NONE),
        Line(FALSE, 4, "match_contains", <<"U">>)>>,
      <<Line(TRUE, 2, "rule_id", R2), Line(FALSE, 4, "snippet_contains", <<"U">>)>>,
      \* an entry without rule_id
      <<Line(TRUE, 2, "url_contains", <<"u">>), Line(TRUE, 2, "rule_id", R2),
        Line(FALSE, 4, "url_contains", <<>>)>>,
      \* two filters in one entry, a second entry for the other rule
      <<Line(TRUE, 2, "rule_id", R1), Line(FALSE, 4, "url_contains", <<"u">>),
        Line(FALSE, 4, "snippet_contains", <<"q">>),
        Line(TRUE, 2, "rule_id", R2), Line(FALSE, 4, "snippet_contains", <<"g">>)>>,
      \* two entries for one rule
      <<Line(TRUE, 2, "rule_id", R1), Line(FALSE, 4, "snippet_contains", <<"q">>),
        Line(TRUE, 2, "rule_id", R1), Line(FALSE, 4, "snippet_contains", <<"u">>)>> }

SuppressScans ==
    {[require_upgrade_context |-> FALSE, case_insensitive |-> ci] : ci \in BOOLEAN}
        \cup {[require_upgrade_context |-> FALSE, case_insensitive |-> ci,
               snippet_chars |-> 2] : ci \in BOOLEAN}

SuppressDocs ==
    {Doc(<<>>, <<>>, sc, SuppressRules, "block", b) :
        sc \in SuppressScans, b \in SuppressBlocks}

SpecSuppress == InitRules(SuppressDocs) /\ [][NextRules]_vars

\* A suppression that sets rule_id and no filter (a reason is no filter).
IsBlunt(sup) ==
    /\ "rule_id" \in DOMAIN sup
    /\ DOMAIN sup \subseteq {"rule_id", "reason"}

(***************************************************************************)
(* C3: when the policy holds a suppression whose only set field is         *)
(* rule_id = r, run_rules returns no finding of rule r, for every text and *)
(* every page URL.                                                         *)
(***************************************************************************)
BluntSuppression ==
    pc = "rules" =>
        \A i \in 1..Len(LoadedSuppressions(doc)) :
            IsBlunt(LoadedSuppressions(doc)[i]) =>
                \A k \in 1..Len(findings) :
                    findings[k].rule_id # LoadedSuppressions(doc)[i]["rule_id"]

\* C3 witness: rule R1 matched the text (it has a "g"), a blunt suppression
\* of R1 removed its findings, and findings of the other rule are returned.
BluntSuppressionWitness ==
    /\ pc = "rules"
    /\ \E i \in 1..Len(LoadedSuppressions(doc)) :
        /\ IsBlunt(LoadedSuppressions(doc)[i])
        /\ LoadedSuppressions(doc)[i]["rule_id"] = R1
    /\ \E j \in 1..Len(text) : text[j] = "g"
    /\ findings # <<>>
    /\ \A k \in 1..Len(findings) : findings[k].rule_id = R2

\* The page URL the filter sees: page_url or "".
UrlSeen == IF page_url = NONE THEN <<>> ELSE page_url

\* The filter field of sup is absent, null or empty, or its value occurs in
\* target (the letter case folded as scan.case_insensitive says).
FilterPasses(sup, field, target) ==
    (field \in DOMAIN sup /\ sup[field] # NONE /\ sup[field] # <<>>)
        => Occurs(sup[field], target, DocCaseInsensitive)

\* Every condition of the suppression holds of the finding f.
Suppresses(sup, f) ==
    /\ "rule_id" \in DOMAIN sup
    /\ sup["rule_id"] = f.rule_id
    /\ FilterPasses(sup, "url_contains", UrlSeen)
    /\ FilterPasses(sup, "snippet_contains", f.snippet)
    /\ FilterPasses(sup, "match_contains", f.match_text)

SuppressedByAny(f) ==
    \E i \in 1..Len(LoadedSuppressions(doc)) : Suppresses(LoadedSuppressions(doc)[i], f)

\* The number of filter fields of sup that hold a non-empty value.
FilterCount(sup) ==
    Cardinality({k \in DOMAIN sup \cap {"url_contains", "snippet_contains", "match_contains"} :
                    sup[k] # NONE /\ sup[k] # <<>>})

(***************************************************************************)
(* C11: a finding of the list before the filter is removed exactly when    *)
(* some suppression of the policy has its rule_id and every filter field   *)
(* that suppression sets to a non-empty value occurs as a literal          *)
(* substring (letter case as scan.case_insensitive says) of the page URL,  *)
(* the snippet, the match text respectively: AND within one suppression,   *)
(* OR across suppressions.  The findings kept are in their former order.   *)
(***************************************************************************)
SuppressionFilter ==
    pc = "rules" =>
        findings = SelectSeq(out, LAMBDA f : ~ SuppressedByAny(f))

\* C11 witness: a suppression with two filters removes one finding of its
\* rule and keeps another (one filter fails there), and a finding of the
\* other rule is removed by another suppression, which the first does not
\* match.
SuppressionFilterWitness ==
    /\ pc = "rules"
    /\ Len(LoadedSuppressions(doc)) >= 2
    /\ \E i \in 1..Len(LoadedSuppressions(doc)), a, b \in 1..Len(out) :
        LET sup == LoadedSuppressions(doc)[i]
        IN  /\ FilterCount(sup) = 2
            /\ Suppresses(sup, out[a])
            /\ out[b].rule_id = out[a].rule_id
            /\ ~ SuppressedByAny(out[b])
            /\ \E c \in 1..Len(out) :
                    SuppressedByAny(out[c]) /\ ~ Suppresses(sup, out[c])
    /\ findings # <<>>
    /\ Len(findings) + 2 <= Len(out)

(***************************************************************************)
(* Proximity documents: one proximity rule, literal anchor and near        *)
(* patterns, no suppressions, the near-mention gate inactive               *)
(* (require_upgrade_context false, or no upgrade_context_window_chars).    *)
(* A context is the variant list and the scan mapping of a document.       *)
(***************************************************************************)
ProxAnchors ==
    { <<Lit(<<"g">>)>>, <<Lit(<<"g">>), Lit(<<"u">>)>>, <<Lit(<<"g", "g">>)>> }

ProxNears == { <<Lit(<<"q">>)>>, <<Lit(<<"q", "q">>), Lit(<<"u">>)>> }

ProxMappings ==
    {[anchor_patterns |-> a, near_patterns |-> n] : a \in ProxAnchors, n \in ProxNears}
        \cup {[anchor_patterns |-> a, near_patterns |-> n, window_chars |-> w] :
                a \in ProxAnchors, n \in ProxNears, w \in 0..3}

ProxContexts ==
    { << <<>>, [require_upgrade_context |-> FALSE] >>,
      << <<>>, [require_upgrade_context |-> FALSE, case_insensitive |-> FALSE,
                proximity_window_chars |-> 2, snippet_chars |-> 2] >>,
      << << <<"u">> >>, [proximity_window_chars |-> 3] >> }

ProxDocs ==
    {Doc(c[1], <<>>, c[2], <<[id |-> R1, proximity |-> m]>>, "inline", <<>>) :
        c \in ProxContexts, m \in ProxMappings}

SpecProx == InitRules(ProxDocs) /\ [][NextRules]_vars

\* The start offsets of the non-overlapping occurrences of the literal lit
\* in t, scanning from the left.
ChosenStarts(lit, t, ci) ==
    LET chosen[p \in 0..Len(t)] ==
            /\ OccursAt(lit, t, p, ci)
            /\ \A q \in 0..(p - 1) : q + Len(lit) > p => ~ chosen[q]
    IN  {p \in 0..Len(t) : chosen[p]}

\* The window [s, e) of width w around the midpoint of the span [a, b).
WinS(a, b, w) ==
    IF ((a + b) \div 2) - (w \div 2) > 0 THEN ((a + b) \div 2) - (w \div 2) ELSE 0

WinE(t, a, b, w) ==
    IF WinS(a, b, w) + w < Len(t) THEN WinS(a, b, w) + w ELSE Len(t)

\* The literal occurs in t entirely inside the window around [a, b).
InWindow(lit, t, a, b, w, ci) ==
    /\ lit # <<>>
    /\ \E i \in 0..Len(t) :
        /\ WinS(a, b, w) <= i
        /\ i + Len(lit) <= WinE(t, a, b, w)
        /\ OccursAt(lit, t, i, ci)

ProxOfDoc == doc.rules[1]["proximity"]

ProxWidth ==
    IF GetOr(ProxOfDoc, "window_chars", 0) # 0
    THEN ProxOfDoc["window_chars"]
    ELSE GetOr(doc.scan, "proximity_window_chars", DefaultProximityWindow)

\* The occurrences of the i-th anchor pattern with a near pattern in their window.
Qualifying(i) ==
    LET a == ProxOfDoc["anchor_patterns"][i].s
    IN  {p \in ChosenStarts(a, text, DocCaseInsensitive) :
            \E j \in 1..Len(ProxOfDoc["near_patterns"]) :
                InWindow(ProxOfDoc["near_patterns"][j].s, text, p, p + Len(a),
                         ProxWidth, DocCaseInsensitive)}

RECURSIVE SeqSum(_)
SeqSum(ns) == IF ns = <<>> THEN 0 ELSE Head(ns) + SeqSum(Tail(ns))

MinOf(S) == CHOOSE x \in S : \A y \in S : x <= y

\* For each anchor pattern with a qualifying occurrence, in order: the span
\* of its first qualifying occurrence.
FirstQualifying ==
    Flatten([i \in 1..Len(ProxOfDoc["anchor_patterns"]) |->
        IF Qualifying(i) = {}
        THEN <<>>
        ELSE << <<MinOf(Qualifying(i)),
                  MinOf(Qualifying(i)) + Len(ProxOfDoc["anchor_patterns"][i].s)>> >>])

Separator == <<" ", ".", ".", ".", " ">>

(***************************************************************************)
(* C8 (as claimed): a proximity rule yields one finding for every anchor   *)
(* occurrence that has a near-pattern match in its window, so k such       *)
(* occurrences of an anchor pattern yield k findings.                      *)
(***************************************************************************)
ProximityFindingPerOccurrence ==
    (pc = "rules" /\ NearGateInactive /\ TopicGateOpen) =>
        Len(findings) =
            SeqSum([i \in 1..Len(ProxOfDoc["anchor_patterns"]) |->
                        Cardinality(Qualifying(i))])

(***************************************************************************)
(* C8 (amended): for each anchor pattern a proximity rule yields one       *)
(* finding, for the first occurrence of that pattern that has a            *)
(* near-pattern match in its window, and none when no occurrence has one;  *)
(* later occurrences of the same anchor pattern yield nothing.  The        *)
(* finding's match_text is the anchor text, " ... " and a near match.      *)
(* (Near-mention gate inactive, no suppressions, topic gate open.)         *)
(***************************************************************************)
ProximityFirstOccurrenceOnly ==
    (pc = "rules" /\ NearGateInactive /\ TopicGateOpen) =>
        /\ Len(findings) = Len(FirstQualifying)
        /\ \A k \in 1..Len(findings) :
            LET a == FirstQualifying[k][1]
                b == FirstQualifying[k][2]
                f == findings[k]
                near == PySlice(f.match_text, (b - a) + Len(Separator), Len(f.match_text))
            IN  /\ f.rule_id = R1
                /\ PySlice(f.match_text, 0, b - a) = PySlice(text, a, b)
                /\ PySlice(f.match_text, b - a, (b - a) + Len(Separator)) = Separator
                /\ \E j \in 1..Len(ProxOfDoc["near_patterns"]) :
                    /\ Fold(near, DocCaseInsensitive)
                        = Fold(ProxOfDoc["near_patterns"][j].s, DocCaseInsensitive)
                    /\ InWindow(near, text, a, b, ProxWidth, DocCaseInsensitive)
                /\ f.snippet = _snippet_around(text, a, b,
                        GetOr(doc.scan, "snippet_chars", DefaultSnippetChars))

\* C8 witness: two occurrences of one anchor pattern qualify, one finding.
ProximityWitness ==
    /\ pc = "rules"
    /\ \E i \in 1..Len(ProxOfDoc["anchor_patterns"]) : Cardinality(Qualifying(i)) >= 2
    /\ Len(ProxOfDoc["anchor_patterns"]) = 1
    /\ Len(findings) = 1

(***************************************************************************)
(* Pattern and trigger documents: one rule with literal patterns (under    *)
(* the key "patterns" or "trigger_patterns"), with or without              *)
(* required_qualifiers_any, one qualifier group "disc", no suppressions,   *)
(* the near-mention gate inactive.                                         *)
(***************************************************************************)
QualPatterns ==
    { <<Lit(<<"g">>)>>, <<Lit(<<"g", "g">>)>>, <<Lit(<<"g">>), Lit(<<"u">>)>> }

QualGroups == { [disc |-> << <<"q">> >>], [disc |-> << <<>>, <<"q", "u">> >>] }

QualContexts ==
    { << <<>>, [require_upgrade_context |-> FALSE] >>,
      << <<>>, [require_upgrade_context |-> FALSE, qualifier_window_chars |-> 2,
                snippet_chars |-> 2] >>,
      << <<>>, [require_upgrade_context |-> FALSE, qualifier_window_chars |-> 3,
                case_insensitive |-> FALSE] >>,
      << <<>>, [require_upgrade_context |-> FALSE, qualifier_window_chars |-> 0] >>,
      << << <<"u">> >>, [qualifier_window_chars |-> 2] >> }

QualRules(key) ==
    {[k \in {"id", key} |-> IF k = "id" THEN R1 ELSE p] : p \in QualPatterns}
        \cup {[k \in {"id", key, "required_qualifiers_any"} |->
                IF k = "id" THEN R1 ELSE IF k = key THEN p ELSE r] :
                p \in QualPatterns, r \in {<<>>, <<"disc">>, <<"terms", "disc">>}}

QualDocs(key) ==
    {Doc(c[1], q, c[2], <<r>>, "inline", <<>>) :
        q \in QualGroups, c \in QualContexts, r \in QualRules(key)}

SpecPattern == InitRules(QualDocs("patterns")) /\ [][NextRules]_vars

SpecTrigger == InitRules(QualDocs("trigger_patterns")) /\ [][NextRules]_vars

RECURSIVE SortedSeq(_)
SortedSeq(S) ==
    IF S = {} THEN <<>> ELSE <<MinOf(S)>> \o SortedSeq(S \ {MinOf(S)})

RequiredOfDoc == GetOr(doc.rules[1], "required_qualifiers_any", <<>>)

QualifierWidth == GetOr(doc.scan, "qualifier_window_chars", DefaultQualifierWindow)

\* A phrase of a named qualifier group lies entirely inside the qualifier
\* window around the span [a, b).
Cancelled(a, b) ==
    \E g \in 1..Len(RequiredOfDoc) :
        /\ RequiredOfDoc[g] \in DOMAIN doc.qualifiers
        /\ \E i \in 1..Len(doc.qualifiers[RequiredOfDoc[g]]) :
            InWindow(doc.qualifiers[RequiredOfDoc[g]][i], text, a, b,
                     QualifierWidth, DocCaseInsensitive)

\* The spans of the non-overlapping matches of the patterns under key, in
\* pattern order and then text order, without the cancelled ones.
UncancelledSpans(key) ==
    LET pats == doc.rules[1][key]
    IN  Flatten([i \in 1..Len(pats) |->
            LET starts == SortedSeq({p \in ChosenStarts(pats[i].s, text, DocCaseInsensitive) :
                                        ~ Cancelled(p, p + Len(pats[i].s))})
            IN  [k \in 1..Len(starts) |-> <<starts[k], starts[k] + Len(pats[i].s)>>]])

\* findings holds one finding per span, in order, with the matched substring
\* as match_text and the snippet around the span.
FindingsAre(spans) ==
    /\ Len(findings) = Len(spans)
    /\ \A k \in 1..Len(findings) :
        /\ findings[k].rule_id = R1
        /\ findings[k].match_text = PySlice(text, spans[k][1], spans[k][2])
        /\ findings[k].snippet = _snippet_around(text, spans[k][1], spans[k][2],
                GetOr(doc.scan, "snippet_chars", DefaultSnippetChars))

\* Some match of a pattern under key is cancelled by a qualifier phrase.
SomeCancelled(key) ==
    \E i \in 1..Len(doc.rules[1][key]) :
        \E p \in ChosenStarts(doc.rules[1][key][i].s, text, DocCaseInsensitive) :
            Cancelled(p, p + Len(doc.rules[1][key][i].s))

(***************************************************************************)
(* C9: with the gates inactive and no suppressions, a pattern rule yields  *)
(* a finding for a non-overlapping match of a pattern exactly when no      *)
(* phrase of a named qualifier group lies entirely inside the qualifier    *)
(* window around the match midpoint; without required_qualifiers_any every *)
(* match yields one finding; match_text is the matched substring.  (Stated *)
(* for texts the document-level topic gate lets through.)                  *)
(***************************************************************************)
PatternQualifierNegation ==
    (pc = "rules" /\ NearGateInactive /\ TopicGateOpen)
        => FindingsAre(UncancelledSpans("patterns"))

\* C9 witness: a narrow qualifier window; one match is cancelled by a phrase
\* in its window, another match of the same text is reported.
PatternQualifierWitness ==
    /\ pc = "rules"
    /\ RequiredOfDoc # <<>>
    /\ QualifierWidth < Len(text)
    /\ SomeCancelled("patterns")
    /\ findings # <<>>

(***************************************************************************)
(* C10: a rule with trigger_patterns and no (or an empty)                  *)
(* required_qualifiers_any yields no finding; with required_qualifiers_any *)
(* set, a trigger match yields a finding exactly when no phrase of the     *)
(* named qualifier groups lies inside the qualifier window around the      *)
(* match midpoint (gates inactive, no suppressions).                       *)
(***************************************************************************)
TriggerNeedsQualifiers ==
    pc = "rules" =>
        IF RequiredOfDoc = <<>>
        THEN findings = <<>>
        ELSE (NearGateInactive /\ TopicGateOpen)
                => FindingsAre(UncancelledSpans("trigger_patterns"))

\* C10 witness: a trigger rule with qualifier groups; one trigger match is
\* cancelled by a phrase in its window, another one is reported.
TriggerWitness ==
    /\ pc = "rules"
    /\ RequiredOfDoc # <<>>
    /\ QualifierWidth < Len(text)
    /\ SomeCancelled("trigger_patterns")
    /\ findings # <<>>

(***************************************************************************)
(* Near-mention documents: one pattern rule with literal patterns, no      *)
(* qualifiers, no suppressions, a variant list and a scan mapping with     *)
(* upgrade_context_window_chars = w > 0.                                   *)
(***************************************************************************)
NearVariants ==
    { << <<"u">> >>, << <<>>, <<"q", "u">> >>, << <<"q">>, <<"u", "u">> >> }

NearScans ==
    {ScanRequire(req, ci, w) : req \in BOOLEAN, ci \in BOOLEAN, w \in 1..3}
        \cup {ScanDefaultRequire(TRUE, 2)}

NearDocs ==
    {Doc(v, <<>>, sc, <<PatternRuleOf(R1, p)>>, "inline", <<>>) :
        v \in NearVariants, sc \in NearScans, p \in QualPatterns}

SpecNear == InitRules(NearDocs) /\ [][NextRules]_vars

NearWidth == GetOr(doc.scan, "upgrade_context_window_chars", 0)

\* A variant phrase lies entirely inside the window of width NearWidth
\* around the midpoint of the span [a, b).
VariantNear(a, b) ==
    \E i \in 1..Len(doc.org_variants) :
        InWindow(doc.org_variants[i], text, a, b, NearWidth, DocCaseInsensitive)

\* The spans of the non-overlapping matches of the patterns, in pattern
\* order and then text order, that have a variant phrase near.
NearSpans ==
    LET pats == doc.rules[1]["patterns"]
    IN  Flatten([i \in 1..Len(pats) |->
            LET starts == SortedSeq({p \in ChosenStarts(pats[i].s, text, DocCaseInsensitive) :
                                        VariantNear(p, p + Len(pats[i].s))})
            IN  [k \in 1..Len(starts) |-> <<starts[k], starts[k] + Len(pats[i].s)>>]])

\* Some match of a pattern has no variant phrase near.
SomeMatchFarFromVariant ==
    \E i \in 1..Len(doc.rules[1]["patterns"]) :
        \E p \in ChosenStarts(doc.rules[1]["patterns"][i].s, text, DocCaseInsensitive) :
            ~ VariantNear(p, p + Len(doc.rules[1]["patterns"][i].s))

(***************************************************************************)
(* C12 (as claimed): with upgrade_context_window_chars = w > 0 and a       *)
(* non-empty variant list, for either value of require_upgrade_context,    *)
(* the findings are the matches that have a variant phrase inside the      *)
(* window of width w around their midpoint; a match without one never      *)
(* becomes a finding.                                                      *)
(***************************************************************************)
NearGateForEitherRequire ==
    (pc = "rules" /\ NearWidth > 0 /\ doc.org_variants # <<>>)
        => FindingsAre(NearSpans)

(***************************************************************************)
(* C12 (amended): with require_upgrade_context true (or absent),           *)
(* upgrade_context_window_chars = w > 0 and a non-empty variant list, the  *)
(* findings are exactly the matches that have a variant phrase inside the  *)
(* window of width w around their midpoint.  With require_upgrade_context  *)
(* false the near-mention gate is off: every match is a finding.           *)
(***************************************************************************)
NearGateWhenRequired ==
    (pc = "rules" /\ NearWidth > 0 /\ doc.org_variants # <<>>) =>
        IF DocRequiresContext
        THEN FindingsAre(NearSpans)
        ELSE FindingsAre(UncancelledSpans("patterns"))

\* C12 witness: the gate is active, the text mentions a variant, one match
\* has it in its window and is reported, another match has not and is not.
NearGateWitness ==
    /\ pc = "rules"
    /\ DocRequiresContext
    /\ NearWidth > 0
    /\ doc.org_variants # <<>>
    /\ SomeMatchFarFromVariant
    /\ findings # <<>>

(***************************************************************************)
(* Policy mutation (mark_false_positives.py).                              *)
(***************************************************************************)
\* The order in which load_marks fills an entry, which is the order
\* yaml.safe_dump(sort_keys=False) writes its keys in.
FieldOrder ==
    <<"rule_id", "url_contains", "snippet_contains", "match_contains", "reason">>

\* mark_false_positives.py:70 and 73, the deduplication key
SuppressionKey(sup) ==
    <<Get(sup, "rule_id"), Get(sup, "snippet_contains"),
      Get(sup, "match_contains"), Get(sup, "url_contains")>>

\* mark_false_positives.py:71-77
RECURSIVE ToAdd(_, _)
ToAdd(seen, new_suppressions) ==
    IF new_suppressions = <<>>
    THEN <<>>
    ELSE LET sup == Head(new_suppressions)
         IN  IF SuppressionKey(sup) \in seen
             THEN ToAdd(seen, Tail(new_suppressions))
             ELSE <<sup>> \o ToAdd(seen \cup {SuppressionKey(sup)}, Tail(new_suppressions))

\* yaml.safe_dump of one entry of a list, the dash in column indent.
DumpEntry(entry, indent) ==
    LET keys == SelectSeq(FieldOrder, LAMBDA k : k \in DOMAIN entry)
    IN  [i \in 1..Len(keys) |->
            IF i = 1
            THEN Line(TRUE, indent, keys[i], entry[keys[i]])
            ELSE Line(FALSE, indent + 2, keys[i], entry[keys[i]])]

\* yaml.safe_dump of a list, every line shifted to the column indent.
DumpList(entries, indent) ==
    Flatten([i \in 1..Len(entries) |-> DumpEntry(entries[i], indent)])

\* mark_false_positives.py:89, the lines the group ((?:\s+-\s+.*\n?)*)
\* takes after the "suppressions:" line: the leading lines that hold a dash
\* after white space (a line break counts, but the line break that ends the
\* "suppressions:" line is taken by the expression before the group).
RECURSIVE MatchedLines(_, _)
MatchedLines(lines, k) ==
    IF /\ k < Len(lines)
       /\ lines[k + 1].dash
       /\ (k > 0 \/ lines[k + 1].indent >= 1)
    THEN MatchedLines(lines, k + 1)
    ELSE k

\* The document append_suppressions_to_policy leaves, for a document that
\* loads (mark_false_positives.py:66-99).
append_suppressions_to_policy(d, new_suppressions) ==
    LET existing == LoadedSuppressions(d)
        seen     == {SuppressionKey(existing[i]) : i \in 1..Len(existing)}
        to_add   == ToAdd(seen, new_suppressions)
        indented == DumpList(to_add, 2)
        k        == MatchedLines(d.sup_lines, 0)
    IN  IF to_add = <<>>
        THEN d
        ELSE IF d.sup_form = "inline"
        THEN [d EXCEPT !.sup_form = "block", !.sup_lines = indented]
        ELSE IF d.sup_form = "block"
        THEN [d EXCEPT !.sup_lines =
                SubSeq(d.sup_lines, 1, k) \o indented
                    \o SubSeq(d.sup_lines, k + 1, Len(d.sup_lines))]
        ELSE [d EXCEPT !.sup_form = "block",
                       !.sup_lines = DumpList(existing \o to_add, 0)]

(***************************************************************************)
(* Policy mutation runs.  Init draws the policy document, each call draws  *)
(* a batch of new suppressions; prev is the document before the last call. *)
(***************************************************************************)
MergeEntries ==
    { [rule_id |-> R1],
      [rule_id |-> R1, url_contains |-> <<"u">>],
      [rule_id |-> R2, snippet_contains |-> <<"g">>, reason |-> <<"q">>],
      [rule_id |-> R2],
      [rule_id |-> R2, url_contains |-> <<>>] }

Batches == {<<e>> : e \in MergeEntries} \cup {<<e, f>> : e, f \in MergeEntries}

MergeBlocks ==
    { <<>>,
      <<Line(TRUE, 2, "rule_id", R2)>>,
      <<Line(TRUE, 2, "rule_id", R1), Line(FALSE, 4, "url_contains", <<"u">>)>>,
      <<Line(TRUE, 2, "rule_id", R2), Line(TRUE, 2, "rule_id", R1),
        Line(FALSE, 4, "match_contains", <<"g">>)>>,
      <<Line(TRUE, 0, "rule_id", R1)>>,
      <<Line(TRUE, 2, "rule_id", R1), Line(FALSE, 4, "snippet_contains", <<>>)>> }

MergeDocs ==
    { Doc(<<>>, <<>>, <<>>, SuppressRules, "absent", <<>>),
      Doc(<<>>, <<>>, <<>>, SuppressRules, "inline", <<>>) }
        \cup {Doc(<<>>, <<>>, <<>>, SuppressRules, "block", b) : b \in MergeBlocks}

InitMerge ==
    /\ pc = "init"
    /\ text = <<>>
    /\ doc \in MergeDocs
    /\ call = NoCall
    /\ out = <<>>
    /\ page_url = NONE
    /\ findings = <<>>
    /\ batch = <<>>
    /\ prev = doc
    /\ NoProgram

\* One run of append_suppressions_to_policy(policy_path, new): load_policy
\* raises on a document that does not parse and the file is left as it is.
Apply(new, done) ==
    /\ prev' = doc
    /\ batch' = new
    /\ IF DocParses(doc)
       THEN doc' = append_suppressions_to_policy(doc, new) /\ pc' = done
       ELSE doc' = doc /\ pc' = "raised"
    /\ UNCHANGED <<text, call, out, page_url, findings, cli_vars>>

\* A run with a new batch of marks.
Merge ==
    \E new \in Batches :
        /\ pc \in {"init", "merged", "remerged"}
        /\ Len(doc.sup_lines) <= MaxLines
        /\ Apply(new, "merged")

\* The same marks are applied a second time, right after the first.
Remerge ==
    /\ pc = "merged"
    /\ Apply(batch, "remerged")

NextMerge == Merge \/ Remerge

SpecMerge == InitMerge /\ [][NextMerge]_vars

(***************************************************************************)
(* C2 (as claimed): applying append_suppressions_to_policy twice in a row  *)
(* with the same batch leaves the parsed suppression list that applying it *)
(* once leaves; the second application adds nothing.                       *)
(***************************************************************************)
MergeIdempotent ==
    pc = "remerged" =>
        /\ DocParses(doc)
        /\ LoadedSuppressions(doc) = LoadedSuppressions(prev)

\* A field of a suppression, a missing field and a null read as "".
FieldOrEmpty(sup, key) ==
    IF key \in DOMAIN sup /\ sup[key] # NONE THEN sup[key] ELSE <<>>

\* The 4-tuple (rule_id, snippet_contains, match_contains, url_contains)
\* with missing fields treated as the empty string.
NormalisedKey(sup) ==
    <<FieldOrEmpty(sup, "rule_id"), FieldOrEmpty(sup, "snippet_contains"),
      FieldOrEmpty(sup, "match_contains"), FieldOrEmpty(sup, "url_contains")>>

NormalisedKeysOf(d) ==
    {NormalisedKey(LoadedSuppressions(d)[i]) : i \in 1..Len(LoadedSuppressions(d))}

(***************************************************************************)
(* C13 (as claimed): the deduplication key treats a missing field as the   *)
(* empty string, so a new suppression whose key, read that way, is the key *)
(* of an existing suppression is dropped: a run whose new suppressions all *)
(* have such keys leaves the policy document as it was.                    *)
(***************************************************************************)
MergeKeyNormalised ==
    (/\ pc = "merged"
     /\ \A i \in 1..Len(batch) : NormalisedKey(batch[i]) \in NormalisedKeysOf(prev))
        => doc = prev

\* The entries of the batch whose key is neither the key of an entry of the
\* document d nor the key of an earlier entry of the batch, in batch order.
FreshEntries(d, new) ==
    LET old   == {SuppressionKey(LoadedSuppressions(d)[i]) :
                    i \in 1..Len(LoadedSuppressions(d))}
        Fresh(i) == /\ SuppressionKey(new[i]) \notin old
                    /\ \A j \in 1..(i - 1) :
                            SuppressionKey(new[j]) # SuppressionKey(new[i])
    IN  Flatten([i \in 1..Len(new) |-> IF Fresh(i) THEN <<new[i]>> ELSE <<>>])

(***************************************************************************)
(* C14 (as claimed): after append_suppressions_to_policy the document      *)
(* parses, its suppression list is the list it had before (every entry     *)
(* with its fields and values, in order) followed by the new entries whose *)
(* keys were not present, and the other sections parse to what they were.  *)
(***************************************************************************)
MergePreservesExisting ==
    pc = "merged" =>
        /\ DocParses(doc)
        /\ LoadedSuppressions(doc)
                = LoadedSuppressions(prev) \o FreshEntries(prev, batch)
        /\ doc.org_variants = prev.org_variants
        /\ doc.qualifiers = prev.qualifiers
        /\ doc.scan = prev.scan
        /\ doc.rules = prev.rules

(***************************************************************************)
(* Documents with a malformed rule: the rule list is a sound rule R1, a    *)
(* malformed entry and a sound rule R2, in some order; no topic gate, or   *)
(* the default one with a variant list.                                    *)
(***************************************************************************)
MalformedEntries ==
    { ScalarEntry(<<"g">>),
      PatternRuleOf(<<"R3">>, <<IntPattern>>),
      PatternRuleOf(<<"R3">>, <<Lit(<<"u">>), IntPattern>>),
      [id |-> <<"R3">>, trigger_patterns |-> <<IntPattern>>],
      [id |-> <<"R3">>, proximity |-> [anchor_patterns |-> <<Lit(<<"g">>)>>,
                                       near_patterns |-> <<IntPattern>>]],
      PatternRuleOf(<<"R3">>, <<Invalid>>),
      PatternRuleOf(<<"R3">>, <<Invalid, Lit(<<>>)>>) }

IsMalformed(rule) == rule \in MalformedEntries

DegradeRuleLists ==
    UNION { { <<SuppressRules[1], e, SuppressRules[2]>>,
              <<e, SuppressRules[1]>>,
              <<SuppressRules[2], e>> } : e \in MalformedEntries }

DegradeDocs ==
    {Doc(c[1], <<>>, c[2], rs, "inline", <<>>) :
        c \in { << <<>>, [require_upgrade_context |-> FALSE] >>,
                 << << <<"u">> >>, [snippet_chars |-> 2] >> },
        rs \in DegradeRuleLists}

SpecDegrade == InitRules(DegradeDocs) /\ [][NextRules]_vars

\* The document without its malformed rule entries.
WithoutMalformed(d) ==
    [d EXCEPT !.rules = SelectSeq(d.rules, LAMBDA r : ~ IsMalformed(r))]

(***************************************************************************)
(* C15 (as claimed): run_rules raises no exception for a policy that       *)
(* parses as a mapping; a malformed rule (an entry that is no mapping, a   *)
(* pattern that is no string, an invalid regex) contributes no finding and *)
(* the findings of the other rules are what they are without it.           *)
(***************************************************************************)
GracefulDegradation ==
    pc # "init" =>
        /\ pc = "rules"
        /\ findings = run_rules(text, WithoutMalformed(doc), page_url)

(***************************************************************************)
(* Load documents: the empty document, documents whose top level is a list *)
(* or a scalar (empty or not), and two documents that are mappings.        *)
(***************************************************************************)
LoadDocs ==
    { NonMapping("empty", FALSE) }
        \cup {NonMapping(top, truthy) : top \in {"list", "scalar"}, truthy \in BOOLEAN}
        \cup {Doc(<<>>, <<>>, sc, SuppressRules, "inline", <<>>) :
                sc \in {<<>>, [require_upgrade_context |-> FALSE]}}

SpecLoad == InitRules(LoadDocs) /\ [][NextRules]_vars

\* The policy run_rules works with is the all-defaults policy without rules.
AllDefaultsNoRules ==
    LET policy == _load_policy(doc)
        ctx    == Context(policy)
    IN  /\ ctx.snippet_chars = 260
        /\ ctx.qualifier_window = 400
        /\ ctx.proximity_window = 250
        /\ ctx.case_insensitive = TRUE
        /\ ctx.upgrade_near_window = 0
        /\ ctx.require_upgrade = TRUE
        /\ policy.rules = <<>>

(***************************************************************************)
(* C16 (as claimed): loading a document whose top level is a list or a     *)
(* scalar fails with PolicyLoadError before any rule is evaluated; the     *)
(* empty document loads as the all-defaults policy without rules and       *)
(* run_rules returns no finding for any text.                              *)
(***************************************************************************)
PolicyLoadOutcomes ==
    pc # "init" =>
        /\ TopLevel(doc) \in {"list", "scalar"} => pc = "PolicyLoadError"
        /\ TopLevel(doc) = "empty" =>
                pc = "rules" /\ findings = <<>> /\ AllDefaultsNoRules

(***************************************************************************)
(* The command line programs: scan.py with the fetcher (src/src/fetch.py,  *)
(* src/src/render_js.py) and mark_false_positives.py.                      *)
(*   args          the command line and the files it names                 *)
(*   url_index     the loop variable i of scan.py:62                       *)
(*   attempt       the loop variable of fetch_with_requests                *)
(*   fetch_result  the FetchResult of the current URL                      *)
(*   log           what the run did, in order: network requests, pauses,   *)
(*                 rule evaluations, files written                         *)
(*   exit_code     the exit status of the process, -1 while it runs        *)
(* text, findings and page_url are main's extracted_text, findings and the *)
(* page_url it passes to run_rules; doc is the policy file.                *)
(***************************************************************************)
MaxUrls == 2

\* The k-th URL of a URL list; the URLs of a list differ.
UrlAt(k) == [j \in 1..k |-> "u"]

CommentLine == <<"#", "u">>

\* scan.py:24-27 on the lines of the file (white space already stripped)
load_urls(lines) ==
    SelectSeq(lines, LAMBDA u : u # <<>> /\ u[1] # "#")

\* The pages a successful fetch returns: markup tokens around the text.
Tags == {"<p>", "</p>"}

Pages == { <<>>, <<"<p>", "g", "</p>">> }

\* extract.py:6-44: the text of the page without its markup.
extract_main_text(html) == SelectSeq(html, LAMBDA c : c \notin Tags)

\* bool(value) of an Optional[str]
Truthy(v) == v # NONE /\ v # <<>>

\* An entry of log: what was done, for which URL (counted from 0); a
\* network request also tells whether it was answered.
Event(ev, k) == [ev |-> ev, url |-> k]

Request(ev, k, ok) == [ev |-> ev, url |-> k, ok |-> ok]

\* Mutant of InputMissing: the policy file is not looked for.
InputMissingUrlsOnly(a) == ~ a.urls_exists

\* scan.py:39-44, a required input file is missing
InputMissing(a) == ~ a.urls_exists \/ ~ a.policy_exists

\* Mutant of RateLimitDue: no pause after a URL that failed to fetch.
RateLimitDueAfterSuccess(k, results) == k > 0 /\ results[k].error = NONE

\* scan.py:63, the rate-limit pause is due before URL number k (from 0);
\* results is results_for_report.
RateLimitDue(k, results) == k > 0

\* fetch.py:41, "for attempt in range(2)": the loop goes on after this attempt.
AttemptLimit == 2

\* Mutant of LoopGoesOn: one turn more.
LoopGoesOnAgain(n) == n < AttemptLimit

LoopGoesOn(n) == n + 1 < AttemptLimit

\* Mutant of FetchSucceeded: the error of the FetchResult is not looked at.
FetchSucceededAlways(result) == TRUE

\* scan.py:79 and 109, the branch of main that evaluates the rules and
\* writes evidence is taken.
FetchSucceeded(result) == ~ Truthy(result.error)

\* scan.py:46, the list urls
urls == load_urls(args.url_lines)

CurrentUrl == urls[url_index + 1]

\* scan.py:30-60: the checks before the loop.
ScanStart ==
    /\ pc = "start"
    /\ args.prog = "scan"
    /\ IF InputMissing(args)
       THEN exit_code' = 1 /\ pc' = "done"
       ELSE IF urls = <<>>
       THEN exit_code' = 0 /\ pc' = "done"
       ELSE exit_code' = exit_code /\ pc' = "loop"
    /\ UNCHANGED <<text, doc, call, out, page_url, findings, batch, prev,
                   args, url_index, attempt, fetch_result, log, results_for_report>>

\* scan.py:62-74: the head of the loop body up to the call of fetch_url,
\* and fetch.py:88-94, the choice of the fetcher.
NextUrl ==
    /\ pc = "loop"
    /\ url_index < Len(urls)
    /\ log' = IF RateLimitDue(url_index, results_for_report)
              THEN Append(log, Event("rate_limit_sleep", url_index))
              ELSE log
    /\ attempt' = 0
    /\ fetch_result' = NoResult
    /\ pc' = IF args.render_js THEN "render" ELSE "requests"
    /\ UNCHANGED <<text, doc, call, out, page_url, findings, batch, prev,
                   args, url_index, results_for_report, exit_code>>

\* render_js.py:14-59 called from fetch.py:89-93.  Without Playwright, or
\* when the browser does not start, an exception reaches fetch_url, which
\* falls back to fetch_with_requests; page.goto is the network request, its
\* failure is returned as a FetchResult with an error, and so is the failure
\* of a later call (page.content, page.screenshot, browser.close) after
\* page.goto was answered.
render_with_playwright ==
    /\ pc = "render"
    /\ \/ /\ ~ args.playwright_available
          /\ pc' = "requests"
          /\ UNCHANGED <<log, fetch_result>>
       \/ /\ args.playwright_available
          /\ \/ /\ pc' = "requests"
                /\ UNCHANGED <<log, fetch_result>>
             \/ \E answered \in BOOLEAN :
                /\ log' = Append(log, Request("goto", url_index, answered))
                /\ fetch_result' = [error |-> <<"e">>, html |-> <<>>,
                                    final_url |-> CurrentUrl]
                /\ pc' = "fetched"
             \/ \E page \in Pages :
                /\ log' = Append(log, Request("goto", url_index, TRUE))
                /\ fetch_result' = [error |-> NONE, html |-> page,
                                    final_url |-> CurrentUrl]
                /\ pc' = "fetched"
    /\ UNCHANGED <<text, doc, call, out, page_url, findings, batch, prev,
                   args, url_index, attempt, results_for_report, exit_code>>

\* fetch.py:41-72, one turn of the loop of fetch_with_requests: session.get
\* returns a response or raises; after the first failure the retry pause.
fetch_with_requests ==
    /\ pc = "requests"
    /\ \/ \E page \in Pages :
            /\ log' = Append(log, Request("get", url_index, TRUE))
            /\ fetch_result' = [error |-> NONE, html |-> page, final_url |-> CurrentUrl]
            /\ attempt' = attempt
            /\ pc' = "fetched"
       \/ /\ log' = log \o <<Request("get", url_index, FALSE)>>
                        \o (IF attempt = 0
                            THEN <<Event("retry_sleep", url_index)>> ELSE <<>>)
          /\ IF LoopGoesOn(attempt)
             THEN /\ attempt' = attempt + 1
                  /\ fetch_result' = fetch_result
                  /\ pc' = "requests"
             ELSE /\ attempt' = attempt
                  /\ fetch_result' = [error |-> <<"e">>, html |-> <<>>,
                                      final_url |-> CurrentUrl]
                  /\ pc' = "fetched"
    /\ UNCHANGED <<text, doc, call, out, page_url, findings, batch, prev,
                   args, url_index, results_for_report, exit_code>>

\* run_rules raises for the policy document d and the text t.
RunRulesRaises(t, d) ==
    ~ DocParses(d) \/ LoadedIsNoMapping(d) \/ RulesRaise(t, d)

\* scan.py:77-122: the rest of the loop body, for the FetchResult of the
\* current URL.  An exception of run_rules is not caught: the process ends
\* with a traceback and exit status 1.
ProcessResult ==
    /\ pc = "fetched"
    /\ IF ~ FetchSucceeded(fetch_result)
       THEN /\ text' = <<>>
            /\ results_for_report' = Append(results_for_report,
                    [url |-> CurrentUrl, findings |-> <<>>, error |-> fetch_result.error])
            /\ log' = Append(log, Event("warning", url_index))
            /\ url_index' = url_index + 1
            /\ pc' = "loop"
            /\ UNCHANGED <<findings, page_url, exit_code>>
       ELSE LET extracted_text == extract_main_text(fetch_result.html)
                url == IF fetch_result.final_url # <<>>
                       THEN fetch_result.final_url ELSE CurrentUrl
            IN  /\ text' = extracted_text
                /\ page_url' = url
                /\ IF RunRulesRaises(extracted_text, doc)
                   THEN /\ log' = Append(log, Event("run_rules", url_index))
                        /\ exit_code' = 1
                        /\ pc' = "crashed"
                        /\ UNCHANGED <<findings, results_for_report, url_index>>
                   ELSE /\ findings' = run_rules(extracted_text, doc, url)
                        /\ results_for_report' = Append(results_for_report,
                                [url |-> CurrentUrl, findings |-> findings', error |-> NONE])
                        /\ log' = log \o <<Event("run_rules", url_index)>>
                                      \o (IF args.no_evidence THEN <<>>
                                          ELSE <<Event("write_evidence", url_index)>>)
                        /\ url_index' = url_index + 1
                        /\ pc' = "loop"
                        /\ UNCHANGED exit_code
    /\ UNCHANGED <<doc, call, out, batch, prev, args, attempt, fetch_result>>

\* scan.py:124-135: after the loop.
WriteReports ==
    /\ pc = "loop"
    /\ url_index = Len(urls)
    /\ log' = log \o <<Event("write_csv", url_index), Event("write_html_report", url_index)>>
    /\ exit_code' = 0
    /\ pc' = "done"
    /\ UNCHANGED <<text, doc, call, out, page_url, findings, batch, prev,
                   args, url_index, attempt, fetch_result, results_for_report>>

\* str.strip() for the blank
RECURSIVE LStrip(_)
LStrip(v) == IF v # <<>> /\ Head(v) = " " THEN LStrip(Tail(v)) ELSE v

RECURSIVE RStrip(_)
RStrip(v) ==
    IF v # <<>> /\ v[Len(v)] = " " THEN RStrip(SubSeq(v, 1, Len(v) - 1)) ELSE v

\* (row.get(col) or "").strip()
Cell(row, col) == RStrip(LStrip(GetStr(row, col)))

\* mark_false_positives.py:38-57, the entry of one row with a rule_id
MarkEntry(row) ==
    LET url_contains == IF Cell(row, "url_contains") # <<>>
                        THEN Cell(row, "url_contains") ELSE Cell(row, "url")
        value(k) == IF k = "url_contains" THEN url_contains ELSE Cell(row, k)
        keys == {"rule_id"} \cup {k \in SupFields : value(k) # <<>>}
    IN  [k \in keys |-> value(k)]

\* mark_false_positives.py:32-58 on the rows of the marks file
load_marks(rows) ==
    LET valid == SelectSeq(rows, LAMBDA row : Cell(row, "rule_id") # <<>>)
    IN  [k \in 1..Len(valid) |-> MarkEntry(valid[k])]

\* mark_false_positives.py:102-135.  An exception of load_policy is not
\* caught: exit status 1.
mark_main ==
    /\ pc = "start"
    /\ args.prog = "mark"
    /\ LET suppressions == load_marks(args.rows)
       IN  IF ~ args.marks_exists
           THEN exit_code' = 1 /\ pc' = "done" /\ UNCHANGED <<doc, batch, prev>>
           ELSE IF suppressions = <<>>
           THEN exit_code' = 1 /\ pc' = "done" /\ UNCHANGED <<doc, batch, prev>>
           ELSE IF args.print_only \/ ~ args.append_policy
           THEN exit_code' = 0 /\ pc' = "done" /\ UNCHANGED <<doc, batch, prev>>
           ELSE IF ~ args.policy_exists
           THEN exit_code' = 1 /\ pc' = "done" /\ UNCHANGED <<doc, batch, prev>>
           ELSE /\ batch' = suppressions
                /\ prev' = doc
                /\ IF DocParses(doc)
                   THEN /\ doc' = append_suppressions_to_policy(doc, suppressions)
                        /\ exit_code' = 0
                        /\ pc' = "done"
                   ELSE /\ doc' = doc
                        /\ exit_code' = 1
                        /\ pc' = "crashed"
    /\ UNCHANGED <<text, call, out, page_url, findings,
                   args, url_index, attempt, fetch_result, log, results_for_report>>

(***************************************************************************)
(* Runs of the command line programs.  Init draws the command line, the    *)
(* input files and the policy file; the network answers as it likes.       *)
(***************************************************************************)
UrlFiles ==
    {[k \in 1..n |-> UrlAt(k)] : n \in 0..MaxUrls}
        \cup { <<CommentLine, <<>>>>, <<CommentLine, UrlAt(1)>> }

ScanArgsOf(ue, pe, lines, render, no_ev, pw) ==
    [prog |-> "scan", urls_exists |-> ue, policy_exists |-> pe, url_lines |-> lines,
     render_js |-> render, no_evidence |-> no_ev, playwright_available |-> pw]

ScanArgs ==
    {ScanArgsOf(TRUE, TRUE, l, r, e, a) :
        l \in UrlFiles, r \in BOOLEAN, e \in BOOLEAN, a \in BOOLEAN}
        \cup {ScanArgsOf(ue, pe, l, FALSE, FALSE, FALSE) :
                ue \in BOOLEAN, pe \in BOOLEAN, l \in {<<>>, <<UrlAt(1)>>}}

MarkRows ==
    { <<>>,
      <<[rule_id |-> <<" ">>, url |-> <<"u">>]>>,
      <<[url |-> <<"u">>, rule_id |-> R1, snippet_contains |-> <<>>,
         match_contains |-> <<" ", "g", " ">>, url_contains |-> <<>>, reason |-> <<>>]>>,
      <<[rule_id |-> <<>>],
        [url |-> <<"u">>, rule_id |-> R2, url_contains |-> <<"g">>, reason |-> <<"q">>]>> }

MarkArgs ==
    {[prog |-> "mark", marks_exists |-> me, rows |-> rows, print_only |-> po,
      append_policy |-> ap, policy_exists |-> pe] :
        me \in BOOLEAN, rows \in MarkRows, po \in BOOLEAN, ap \in BOOLEAN,
        pe \in BOOLEAN}

\* Policy files: one that loads, one that yaml.safe_load rejects.
CliDocs ==
    { Doc(<<>>, <<>>, [require_upgrade_context |-> FALSE], SuppressRules, "inline", <<>>),
      Doc(<<>>, <<>>, [require_upgrade_context |-> FALSE], SuppressRules, "block",
          <<Line(TRUE, 2, "rule_id", R1), Line(TRUE, 0, "rule_id", R2)>>) }

InitCli ==
    /\ pc = "start"
    /\ args \in ScanArgs \cup MarkArgs
    /\ doc \in CliDocs
    /\ text = <<>>
    /\ call = NoCall
    /\ out = <<>>
    /\ page_url = NONE
    /\ findings = <<>>
    /\ batch = <<>>
    /\ prev = doc
    /\ url_index = 0
    /\ attempt = 0
    /\ fetch_result = NoResult
    /\ log = <<>>
    /\ results_for_report = <<>>
    /\ exit_code = -1

NextCli ==
    \/ ScanStart
    \/ NextUrl
    \/ render_with_playwright
    \/ fetch_with_requests
    \/ ProcessResult
    \/ WriteReports
    \/ mark_main

SpecCli == InitCli /\ [][NextCli]_vars

\* The row of the marks file has a rule_id that is not blank.
HasRuleId(row) ==
    /\ "rule_id" \in DOMAIN row
    /\ \E j \in 1..Len(row["rule_id"]) : row["rule_id"][j] # " "

NoUsableMark == \A k \in 1..Len(args.rows) : ~ HasRuleId(args.rows[k])

\* A file the run needs is missing: the URL list or the policy of a scan;
\* the marks file, or the policy file when the marks are to be appended.
RequiredFileMissing ==
    IF args.prog = "scan"
    THEN ~ args.urls_exists \/ ~ args.policy_exists
    ELSE \/ ~ args.marks_exists
         \/ /\ args.append_policy
            /\ ~ args.print_only
            /\ ~ args.policy_exists

IsRequest(e) == e.ev \in {"goto", "get"}

\* The processing of URL number k (from 0) is over at position p of log:
\* the warning of a failed fetch, or the evaluation of the rules followed,
\* unless --no-evidence, by the evidence write.
EndsUrl(p, k) ==
    /\ p \in 1..Len(log)
    /\ log[p].url = k
    /\ \/ log[p].ev = "warning"
       \/ log[p].ev = "write_evidence" /\ ~ args.no_evidence
       \/ log[p].ev = "run_rules" /\ args.no_evidence

\* Every URL before number k has been processed to its end before position q.
EarlierUrlsDone(q, k) ==
    \A j \in 0..(k - 1) : \E p \in 1..(q - 1) : EndsUrl(p, j)

(***************************************************************************)
(* C18: a scan processes the URLs one at a time in input order; before     *)
(* the first request for URL i+1 the processing of URL i is over (warning, *)
(* or rule evaluation and evidence write) and after that end the           *)
(* rate-limit pause was taken, also when URL i failed to fetch.            *)
(***************************************************************************)
PoliteCrawlingOrder ==
    args.prog = "scan" =>
        /\ \A p, q \in 1..Len(log) : p < q => log[p].url <= log[q].url
        /\ \A q \in 1..Len(log) :
              IsRequest(log[q]) /\ log[q].url > 0 =>
                  \E s \in 1..(q - 1) :
                      /\ log[s] = Event("rate_limit_sleep", log[q].url)
                      /\ EarlierUrlsDone(s, log[q].url)
        /\ \A q \in 1..Len(log) :
              log[q].ev = "write_evidence" =>
                  q > 1 /\ log[q - 1] = Event("run_rules", log[q].url)
        /\ \A j \in 1..Len(results_for_report) :
              results_for_report[j].url = urls[j]

\* C18 witness: the first URL failed to fetch, the pause was taken, and a
\* request for the second URL followed.
PoliteCrawlingOrderWitness ==
    /\ args.prog = "scan"
    /\ \E p, s, q \in 1..Len(log) :
          /\ p < s /\ s < q
          /\ log[p] = Event("warning", 0)
          /\ log[s] = Event("rate_limit_sleep", 1)
          /\ IsRequest(log[q]) /\ log[q].url = 1

\* The positions of log with a network request for URL number k (from 0).
RequestsFor(k) == {q \in 1..Len(log) : IsRequest(log[q]) /\ log[q].url = k}

\* The positions of log where the rules were evaluated for URL number k.
EvaluationsFor(k) == {q \in 1..Len(log) : log[q].ev = "run_rules" /\ log[q].url = k}

\* fetch_url is at work: it was called and has not returned.
Fetching == pc \in {"render", "requests"}

\* fetch.py:75-94 returned a FetchResult for the current URL.
Fetched == pc = "fetched" /\ fetch_result.final_url = CurrentUrl

\* The safety part of C19, on the operations of the run so far.
BoundedRetryInv ==
    args.prog = "scan" =>
        /\ attempt < AttemptLimit
        /\ pc = "fetched" => Fetched
        /\ \A k \in 0..Len(urls) :
              /\ Cardinality(RequestsFor(k)) <= 2
              /\ Cardinality(EvaluationsFor(k)) <= 1
              /\ \A p \in RequestsFor(k) : \A e \in EvaluationsFor(k) : p < e
        /\ \A p, q \in 1..Len(log) :
              /\ p < q
              /\ IsRequest(log[p]) /\ IsRequest(log[q])
              /\ log[p].url = log[q].url
              => /\ log[p] = Request("get", log[q].url, FALSE)
                 /\ log[q].ev = "get"
                 /\ q = p + 2
                 /\ log[p + 1] = Event("retry_sleep", log[q].url)

\* Every call fetch_url makes returns or raises: the requests have timeouts
\* (fetch.py:43, render_js.py:32), so a fetcher that was called takes its
\* next step.
SpecCliFair ==
    SpecCli /\ WF_vars(render_with_playwright) /\ WF_vars(fetch_with_requests)

(***************************************************************************)
(* C19: for every URL at most two network requests are made, the second    *)
(* only after the first failed and after the retry pause, also when        *)
(* --render-js falls back to plain requests; fetch_url always returns a    *)
(* result; the rules are evaluated at most once per URL and never before   *)
(* a request for the same URL.                                             *)
(***************************************************************************)
BoundedRetry == [] BoundedRetryInv /\ (Fetching ~> Fetched)

\* C19 witness: with --render-js the fetch fell back to plain requests, the
\* first request failed, the second was made after the retry pause, and the
\* rules were evaluated for that URL.
BoundedRetryWitness ==
    /\ args.prog = "scan"
    /\ args.render_js
    /\ Len(log) >= 4
    /\ log[1] = Request("get", 0, FALSE)
    /\ log[2] = Event("retry_sleep", 0)
    /\ log[3] = Request("get", 0, TRUE)
    /\ log[4] = Event("run_rules", 0)

\* Every network request made for URL number k (from 0) failed.
AllRequestsFailed(k) ==
    /\ RequestsFor(k) # {}
    /\ \A q \in RequestsFor(k) : ~ log[q].ok

\* The positions of log with the operation ev.
PositionsOf(ev) == {q \in 1..Len(log) : log[q].ev = ev}

\* scan.py:62 was entered: the input files are there and hold a URL.
LoopEntered == args.prog = "scan" /\ ~ InputMissing(args) /\ urls # <<>>

(***************************************************************************)
(* C20: when every request for a URL failed, the scan records one result   *)
(* for it with no findings and the error set, does not evaluate the rules  *)
(* and writes no evidence for it, and goes on with the next URL; a run     *)
(* that ends has one result per input URL in input order and has written   *)
(* the two reports once, after the last URL.                               *)
(***************************************************************************)
FetchFailureNotFatal ==
    LoopEntered =>
        /\ Len(results_for_report) = url_index
        /\ \A k \in 1..Len(results_for_report) :
              /\ results_for_report[k].url = urls[k]
              /\ AllRequestsFailed(k - 1) =>
                    /\ results_for_report[k].findings = <<>>
                    /\ Truthy(results_for_report[k].error)
                    /\ EvaluationsFor(k - 1) = {}
                    /\ \A q \in PositionsOf("write_evidence") : log[q].url # k - 1
        /\ pc = "crashed" => ~ AllRequestsFailed(url_index)
        /\ PositionsOf("write_csv") \cup PositionsOf("write_html_report") # {}
              => pc = "done"
        /\ pc = "done" =>
              /\ Len(results_for_report) = Len(urls)
              /\ PositionsOf("write_csv") = {Len(log) - 1}
              /\ PositionsOf("write_html_report") = {Len(log)}

\* C20 witness: every request for the first URL failed, the second URL was
\* fetched and gave a finding, and the run ended with the reports.
FetchFailureNotFatalWitness ==
    /\ LoopEntered
    /\ pc = "done"
    /\ Len(results_for_report) >= 2
    /\ AllRequestsFailed(0)
    /\ Cardinality(RequestsFor(0)) = 2
    /\ results_for_report[1].findings = <<>>
    /\ results_for_report[2].error = NONE
    /\ results_for_report[2].findings # <<>>

(***************************************************************************)
(* A scan while the policy file is rewritten.  mark_false_positives.py is  *)
(* a program of its own: a reviewer may run it with --append-policy on the *)
(* policy file of a scan that is under way.  prev is the policy document   *)
(* as it was when the scan started, batch the marks that were appended.    *)
(***************************************************************************)
MutationBatches == { <<[rule_id |-> R1]>>, <<[rule_id |-> R2, url_contains |-> <<"q">>]>> }

\* mark_false_positives.py:66-99, run by another process between two turns
\* of the loop of scan.py:62, once in a scan; load_policy raises on a file
\* that does not parse and the file is left as it is.
PolicyMutation ==
    /\ pc = "loop"
    /\ args.prog = "scan"
    /\ url_index > 0
    /\ url_index < Len(urls)
    /\ batch = <<>>
    /\ \E new \in MutationBatches :
          /\ batch' = new
          /\ doc' = IF DocParses(doc)
                    THEN append_suppressions_to_policy(doc, new)
                    ELSE doc
    /\ UNCHANGED <<pc, text, call, out, page_url, findings, prev, cli_vars>>

\* Policy files of the scan: no suppressions yet, and one suppression of R2.
MutationDocs ==
    { Doc(<<>>, <<>>, [require_upgrade_context |-> FALSE], SuppressRules, "inline", <<>>),
      Doc(<<>>, <<>>, [require_upgrade_context |-> FALSE], SuppressRules, "block",
          <<Line(TRUE, 2, "rule_id", R2)>>) }

InitMutation ==
    /\ pc = "start"
    /\ args \in ScanArgs
    /\ doc \in MutationDocs
    /\ text = <<>>
    /\ call = NoCall
    /\ out = <<>>
    /\ page_url = NONE
    /\ findings = <<>>
    /\ batch = <<>>
    /\ prev = doc
    /\ url_index = 0
    /\ attempt = 0
    /\ fetch_result = NoResult
    /\ log = <<>>
    /\ results_for_report = <<>>
    /\ exit_code = -1

NextMutation ==
    \/ ScanStart
    \/ NextUrl
    \/ render_with_playwright
    \/ fetch_with_requests
    \/ ProcessResult
    \/ WriteReports
    \/ PolicyMutation

SpecMutation == InitMutation /\ [][NextMutation]_vars

\* The last URL that was processed was fetched and its rules were evaluated:
\* text, page_url and findings are those of that URL.
LastUrlEvaluated ==
    /\ LoopEntered
    /\ pc \in {"loop", "done"}
    /\ url_index > 0
    /\ results_for_report[url_index].error = NONE

(***************************************************************************)
(* C21 (as claimed): every URL of a scan is evaluated against the policy   *)
(* document as it was when the scan started; the findings reported for a   *)
(* URL are those of that document, also when the policy file was rewritten *)
(* by append_suppressions_to_policy between two URLs.                      *)
(***************************************************************************)
PolicyFixedForScan ==
    LastUrlEvaluated =>
        /\ findings = run_rules(text, prev, page_url)
        /\ results_for_report[url_index].findings = findings

\* No two entries of the suppression list of the document d have the same
\* key (rule_id, snippet_contains, match_contains, url_contains).
NoDuplicateKeys(d) ==
    LET sups == LoadedSuppressions(d)
    IN  \A i, j \in 1..Len(sups) :
            i < j => SuppressionKey(sups[i]) # SuppressionKey(sups[j])

(***************************************************************************)
(* C22 (as claimed): starting from a policy document without two           *)
(* suppressions of the same key, after every sequence of runs of           *)
(* append_suppressions_to_policy, whatever the batches, the suppression    *)
(* list the document parses to has no two entries with the same key.       *)
(***************************************************************************)
NoDuplicateKeysAfterMerges ==
    DocParses(doc) => NoDuplicateKeys(doc)

====
